---- MODULE Spec2Model ----
(***************************************************************************)
(* A model of GrokVideoPlugin (src/main.py): the "generate" command        *)
(* handler cmd_generate_video, the group admission check                   *)
(* _check_group_access, the per-user dedup map _processing_tasks, and the  *)
(* asynchronous run _async_generate_video with the retrying API client,    *)
(* the download, the NapCat relay hand-off, the delivery and the final     *)
(* cleanup.                                                                *)
(*                                                                         *)
(* The program runs on one asyncio event loop: code between two awaits     *)
(* that really suspend runs without interleaving.  Every action below is   *)
(* one such block: it resumes a coroutine at the await it is suspended on, *)
(* with the outcome of that await as its input, and runs it to the next    *)
(* await (or to its end, the finally block included).                      *)
(***************************************************************************)
EXTENDS Integers, Sequences, FiniteSets, TLC

\* ------------------------------------------------------------------ bounds
\* Commands that arrive, and failed awaits, in each specification below.
NCmds == 3
Concurrent == 2
MaxFaults == 2
SoloFaults == 3
MaxTime == 2
MaxAttempts == 3
MaxCalls == 2
MaxWindow == 2
\* Items of the structured fields, and spans of the text content, of a body.
MaxItems == 2
MaxSpans == 2

Cmds == 1..NCmds
Actors == {"u1", "u2"}
NoGroup == "<no group>"
Groups == {"g1"}

\* Python's None and the empty string, which every test in the code treats alike
\* (`if not video_path`, `if forwarded_path and ...`).
Empty == << >>

VARIABLES
    cfg,               \* the plugin's configuration, read once in __init__
    now,               \* the last value time.time() returned
    faults,            \* how many more awaits may fail (the environment's budget)
    rate_limit_bucket, \* self._rate_limit_bucket: group -> window, or Empty
    rate_limit_locks,  \* self._rate_limit_locks: the groups whose lock exists
    processing_tasks,  \* self._processing_tasks: user -> task id, or 0
    files,             \* the files present in self.videos_dir
    pc,                \* per command: the await it is suspended on
    cmd,               \* per command: the inbound event (sender, group, images)
    adm,               \* per command: what its admission check saw and did
    task_id,           \* per command: the task id the handler generated, or 0
    loc,               \* per command: the locals of its run
    log                \* per command: what its handler and run did, in order

vars == << cfg, now, faults, rate_limit_bucket, rate_limit_locks, processing_tasks,
           files, pc, cmd, adm, task_id, loc, log >>

\* ------------------------------------------------------------ configuration
\* The plugin's defaults shape every configuration; each specification varies
\* the options its claims are about.
BaseConfig ==
    [ enabled |-> TRUE, api_key |-> TRUE, max_retry_attempts |-> MaxAttempts,
      group_control_mode |-> "off", group_list |-> {},
      rate_limit_enabled |-> TRUE, rate_limit_window_seconds |-> MaxWindow,
      rate_limit_max_calls |-> MaxCalls,
      save_video_enabled |-> TRUE,
      \* config.get("server_url", "https://api.x.ai").rstrip('/')
      server_url |-> << "https://", "api.x.ai" >>,
      \* nap_server_address and nap_server_port are set and send_file imported
      relay |-> TRUE ]

Configs == { BaseConfig }

ConfigsSolo ==
    { [BaseConfig EXCEPT !.enabled = e, !.api_key = k,
                         !.max_retry_attempts = n, !.relay = r] :
        e \in BOOLEAN, k \in BOOLEAN, n \in 0..MaxAttempts, r \in BOOLEAN }

ConfigsAdmission ==
    { [BaseConfig EXCEPT !.rate_limit_window_seconds = w, !.rate_limit_max_calls = k] :
        w \in 1..MaxWindow, k \in 1..MaxCalls }

\* self.group_control_mode and self.group_list, the rate limiter being enabled.
ConfigsAccess ==
    { [BaseConfig EXCEPT !.group_control_mode = m, !.group_list = l] :
        m \in {"off", "whitelist", "blacklist"}, l \in SUBSET Groups }

ConfigsExtract ==
    { [BaseConfig EXCEPT !.server_url = u] :
        u \in { << "https://", "api.x.ai" >>, << "https://", "grok.example", "/", "api" >> } }

\* ------------------------------------------------------------- rate limiter
NoBucket == [window_start |-> -1, count |-> -1]

\* bucket = self._rate_limit_bucket.get(group_id, {"window_start": now, "count": 0})
GetBucket(buckets, g, t) ==
    IF buckets[g] = NoBucket THEN [window_start |-> t, count |-> 0] ELSE buckets[g]

\* if now - window_start >= self.rate_limit_window_seconds
WindowElapsedStrict(t, window_start, w) == t - window_start > w
WindowElapsed(t, window_start, w) == t - window_start >= w

\* window_start = now; count = 0 when the window has elapsed
CurrentWindow(b, t, w) ==
    IF WindowElapsed(t, b.window_start, w)
    THEN [window_start |-> t, count |-> 0]
    ELSE b

\* if count >= self.rate_limit_max_calls: return the limit message
OverLimitOffByOne(count, c) == count > c
OverLimit(count, c) == count >= c

\* The body of `async with self._rate_limit_locks[group_id]`, which holds no
\* await: [denied, bucket], bucket being what is stored for the group afterwards.
RateCheck(buckets, g, t, w, c) ==
    LET b == CurrentWindow(GetBucket(buckets, g, t), t, w) IN
    IF OverLimit(b.count, c)
    THEN [denied |-> TRUE, bucket |-> buckets[g]]
    ELSE [denied |-> FALSE,
          bucket |-> [window_start |-> b.window_start, count |-> b.count + 1]]

\* _check_group_access: "" when access is granted, else the refusal.
GroupRefusal(g) ==
    IF g = NoGroup THEN ""
    ELSE IF cfg.group_control_mode = "whitelist" /\ g \notin cfg.group_list
         THEN "GroupNotAuthorized"
    ELSE IF cfg.group_control_mode = "blacklist" /\ g \in cfg.group_list
         THEN "GroupBlocked"
    ELSE ""

RateLimitedBeforeAuth(g) == g # NoGroup /\ cfg.rate_limit_enabled
RateLimited(g) == g # NoGroup /\ GroupRefusal(g) = "" /\ cfg.rate_limit_enabled

NoAdm == [checked |-> FALSE, group |-> NoGroup, t |-> -1, before |-> NoBucket,
          after |-> NoBucket, denied |-> FALSE]

\* ------------------------------------------------------ URL extraction
\* A string is the sequence of its pieces: "https://cdn.example/a.mp4" is
\* << "https://", "cdn.example", "/", "a", ".mp4" >>.  A piece is a scheme with
\* its "//", one "/", a name, an extension, a query, or one character.
AtomLen(a) ==
    CASE a = "http://" -> 7 [] a = "https://" -> 8 [] a = "ftp:" -> 4
      [] a = "/" -> 1 [] a = ".." -> 2 [] a = "<" -> 1
      [] a \in {".mp4", ".MP4", "?t=1"} -> 4
      [] a = "cdn.example" -> 11 [] a = "evil.example" -> 12
      [] a = "api.x.ai" -> 8 [] a = "grok.example" -> 12
      [] a = "media" -> 5 [] a = "api" -> 3
      [] OTHER -> 1

\* len(url)
RECURSIVE CharLen(_)
CharLen(u) == IF u = << >> THEN 0 ELSE AtomLen(Head(u)) + CharLen(Tail(u))

\* url.lstrip("/")
RECURSIVE LStrip(_)
LStrip(u) == IF u # << >> /\ Head(u) = "/" THEN LStrip(Tail(u)) ELSE u

\* The base without its last path segment (the base ends in "/").
Parent(base) ==
    IF Len(base) > 3 /\ base[Len(base) - 2] = "/"
    THEN SubSeq(base, 1, Len(base) - 2)
    ELSE base

\* urllib.parse.urljoin(base, rel) for a base that ends in "/": a rel with a
\* scheme of its own stands alone, a leading ".." segment climbs one segment
\* of the base, anything else is appended.
UrlJoin(base, rel) ==
    IF rel = << >> THEN base
    ELSE IF Head(rel) \in {"http://", "https://"} THEN rel
    ELSE IF Head(rel) = ".." /\ Len(rel) >= 2 THEN Parent(base) \o SubSeq(rel, 3, Len(rel))
    ELSE base \o rel

\* _is_valid_video_url
Mp4Atoms == {".mp4", ".MP4"}
InvalidChars == {"<"}
IsValidVideoUrlAnyChars(u) ==
    /\ CharLen(u) >= 10
    /\ Head(u) \in {"http://", "https://"}
    /\ \E i \in DOMAIN u : u[i] \in Mp4Atoms
IsValidVideoUrl(u) ==
    /\ CharLen(u) >= 10
    /\ Head(u) \in {"http://", "https://"}
    /\ \E i \in DOMAIN u : u[i] \in Mp4Atoms
    /\ \A i \in DOMAIN u : u[i] \notin InvalidChars

\* _resolve_url: None for None or "", else the URL (joined to the server's
\* when it starts with "/") if it is valid, else None.
ResolveUrl(u) ==
    IF u = Empty THEN Empty
    ELSE LET v == IF Head(u) = "/"
                  THEN UrlJoin(cfg.server_url \o << "/" >>, LStrip(u))
                  ELSE u
         IN IF IsValidVideoUrl(v) THEN v ELSE Empty

\* A field of the body that is missing, or holds something that is no string.
NoField == << "<absent>" >>
NotAString == << "<not a string>" >>

\* url.lower().endswith(".mp4")
EndsWithMp4(u) == u # << >> /\ u[Len(u)] \in Mp4Atoms

\* _try_structured_extraction.  `items` lists the items of message.attachments,
\* message.media and message.files in that order.
StructuredItem(items) ==
    LET hits == { i \in DOMAIN items : items[i] # NotAString /\ EndsWithMp4(items[i]) }
    IN IF hits = {} THEN Empty
       ELSE items[CHOOSE i \in hits : \A j \in hits : i <= j]
TryStructuredExtraction(b) ==
    IF b.video_url \notin {NoField, NotAString} THEN b.video_url
    ELSE StructuredItem(b.items)

\* The text content is a sequence of spans, each of one of these kinds:
\*   "text"    words without a URL
\*   "video"   <video src="URL">
\*   "source"  <video controls><source src="URL"></video>
\*   "bare"    the URL, between spaces
\*   "md"      [video](URL)
Span(k, u) == [kind |-> k, url |-> u]

\* The first of the positions hits, 0 when there is none.
First(hits) == IF hits = {} THEN 0 ELSE CHOOSE i \in hits : \A j \in hits : i <= j
\* [^"'>]+\.mp4 and [^\)]+\.mp4: ".mp4", in any case, after something.
HasMp4(u) == \E i \in DOMAIN u : i > 1 /\ u[i] \in Mp4Atoms

\* _extract_from_html_tag: the first pattern finds the first <video ... src=...>
\* tag; failing that, the second finds the first src="..." that holds ".mp4".
ExtractFromHtmlTag(content) ==
    LET v == First({ i \in DOMAIN content : content[i].kind = "video" })
        w == First({ i \in DOMAIN content :
                       content[i].kind = "source" /\ HasMp4(content[i].url) })
    IN IF v # 0 THEN content[v].url
       ELSE IF w # 0 THEN content[w].url
       ELSE Empty

\* The match of ((?:https?://|/)[^\s<>"')\]\}]+\.mp4(?:\?[^\s<>"')\]\}]*)?)
\* that starts at piece i of u, or nothing: it runs up to the last ".mp4" before
\* a character the class excludes, and takes a query that follows.
DirectFrom(u, i) ==
    LET stops == { j \in (i + 1)..Len(u) : u[j] \in InvalidChars }
        runEnd == IF stops = {} THEN Len(u)
                  ELSE (CHOOSE j \in stops : \A k \in stops : j <= k) - 1
        ends == { j \in (i + 2)..runEnd : u[j] \in Mp4Atoms }
        last == CHOOSE j \in ends : \A k \in ends : k <= j
    IN IF u[i] \notin {"http://", "https://", "/"} \/ ends = {} THEN Empty
       ELSE IF last < runEnd /\ u[last + 1] = "?t=1" THEN SubSeq(u, i, last + 1)
       ELSE SubSeq(u, i, last)

\* The leftmost match in u.
DirectOf(u) ==
    LET starts == { i \in DOMAIN u : DirectFrom(u, i) # Empty }
    IN IF starts = {} THEN Empty
       ELSE DirectFrom(u, CHOOSE i \in starts : \A j \in starts : i <= j)

\* _extract_direct_url: the first match in the whole content.
ExtractDirectUrl(content) ==
    LET i == First({ j \in DOMAIN content : DirectOf(content[j].url) # Empty })
    IN IF i = 0 THEN Empty ELSE DirectOf(content[i].url)

\* _extract_from_markdown: the target of the first link that holds ".mp4".
ExtractFromMarkdown(content) ==
    LET i == First({ j \in DOMAIN content :
                       content[j].kind = "md" /\ HasMp4(content[j].url) })
    IN IF i = 0 THEN Empty ELSE content[i].url

\* _try_content_extraction: the first of the three that finds something.
TryContentExtraction(content) ==
    IF ExtractFromHtmlTag(content) # Empty THEN ExtractFromHtmlTag(content)
    ELSE IF ExtractDirectUrl(content) # Empty THEN ExtractDirectUrl(content)
    ELSE ExtractFromMarkdown(content)

\* A result (url, error): None is Empty, resp. "".
Result(u, e) == [url |-> u, err |-> e]
NoResult == Result(Empty, "<none>")

\* What the checks on the shape of the body answer, "" when they pass.
ShapeError(b) ==
    CASE b.shape = "not_dict" -> "InvalidResponseFormat"
      [] b.shape = "no_choices" -> "MissingChoices"
      [] b.shape = "no_message" -> "MissingMessage"
      [] b.shape = "no_content" -> "MissingContent"
      [] b.shape = "content_not_str" -> "ContentNotString"
      \* response_data["choices"] is a dict: ["choices"][0] raises KeyError
      [] b.shape = "choices_not_list" -> "ExtractionException"
      [] OTHER -> ""

\* _extract_video_url_from_response
ExtractVideoUrlContentFirst(b) ==
    IF ShapeError(b) # "" THEN Result(Empty, ShapeError(b))
    ELSE IF ResolveUrl(TryContentExtraction(b.content)) # Empty
         THEN Result(ResolveUrl(TryContentExtraction(b.content)), "")
    ELSE IF ResolveUrl(TryStructuredExtraction(b)) # Empty
         THEN Result(ResolveUrl(TryStructuredExtraction(b)), "")
    ELSE Result(Empty, "NoValidUrlFound")
ExtractVideoUrlFromResponse(b) ==
    IF ShapeError(b) # "" THEN Result(Empty, ShapeError(b))
    ELSE IF ResolveUrl(TryStructuredExtraction(b)) # Empty
         THEN Result(ResolveUrl(TryStructuredExtraction(b)), "")
    ELSE IF ResolveUrl(TryContentExtraction(b.content)) # Empty
         THEN Result(ResolveUrl(TryContentExtraction(b.content)), "")
    ELSE Result(Empty, "NoValidUrlFound")

\* ---------------------------------------------------- response bodies
UrlAbs == << "https://", "cdn.example", "/", "media", "/", "a", ".mp4" >>
UrlUpper == << "http://", "cdn.example", "/", "b", ".MP4" >>
UrlQuery == << "https://", "cdn.example", "/", "a", ".mp4", "?t=1" >>
UrlRel == << "/", "media", "/", "a", ".mp4" >>
UrlProto == << "/", "/", "cdn.example", "/", "a", ".mp4" >>
UrlDots == << "/", "..", "/", "a", ".mp4" >>
UrlEscape == << "/", "https://", "evil.example", "/", "a", ".mp4" >>
UrlFtp == << "ftp:", "/", "/", "cdn.example", "/", "a", ".mp4" >>
UrlAngle == << "https://", "cdn.example", "/", "<", "a", ".mp4" >>
UrlName == << "a", ".mp4" >>

SeqsUpTo(S, n) == UNION { [1..k -> S] : k \in 0..n }

Body(sh, v, its, txt) == [shape |-> sh, video_url |-> v, items |-> its, content |-> txt]
NoBody == Body("none", NoField, << >>, << >>)

VideoUrlFields == { NoField, NotAString, Empty, UrlAbs, UrlEscape, UrlAngle }
ItemUrls == { UrlUpper, UrlQuery, UrlDots }
Spans == { Span("text", Empty),
           Span("video", UrlRel), Span("video", UrlProto), Span("video", UrlAngle),
           Span("source", UrlAbs), Span("bare", UrlFtp),
           Span("md", UrlRel), Span("md", UrlName) }
Shapes == { "not_dict", "no_choices", "choices_not_list", "no_message", "no_content",
            "content_not_str" }

\* What response.json() can return: a body of the shape the extraction expects,
\* or one of another shape (with or without a top-level video_url).
Bodies ==
    { Body("dict", v, its, txt) :
        v \in VideoUrlFields, its \in SeqsUpTo(ItemUrls, MaxItems),
        txt \in SeqsUpTo(Spans, MaxSpans) }
    \cup { Body(sh, v, << >>, << >>) : sh \in Shapes \ {"not_dict"}, v \in {NoField, UrlAbs} }
    \cup { Body("not_dict", NoField, << >>, << >>) }

\* {"choices": [{"message": {"content": "Here: [video](/media/a.mp4)"}}]}, and
\* the same with a content that holds no URL.
GoodBody == Body("dict", NoField, << >>, << Span("text", Empty), Span("md", UrlRel) >>)
BadBody == Body("dict", NoField, << >>, << Span("text", Empty) >>)
FewBodies == { GoodBody, BadBody }
SoloBodies ==
    FewBodies \cup { Body("dict", UrlAbs, << >>, << >>),
                     Body("dict", NoField, << UrlUpper >>, << Span("bare", UrlFtp) >>),
                     Body("not_dict", NoField, << >>, << >>) }
               \cup { Body(sh, NoField, << >>, << >>) : sh \in Shapes }

\* ------------------------------------------------------------------- state
NoComponent == [kind |-> "", path |-> Empty]
NoForward == [asked |-> FALSE, raised |-> FALSE, ret |-> Empty]
NoLoc == [video_url |-> Empty, video_path |-> Empty, error_msg |-> "",
          attempt |-> 0, body |-> NoBody, extracted |-> NoResult, api |-> NoResult, forwarded |-> NoForward, component |-> NoComponent,
          send |-> "none", escaped |-> FALSE]

NoEvent == [sender |-> "", group |-> NoGroup, images |-> FALSE]

\* The state after __init__, before any command: n commands are to arrive and
\* f awaits may fail, under one of the configurations configs, and the clock
\* stands at t0.
InitWith(n, f, configs, t0) ==
    /\ cfg \in configs
    /\ now = t0
    /\ faults = f
    /\ rate_limit_bucket = [g \in Groups |-> NoBucket]
    /\ rate_limit_locks = {}
    /\ processing_tasks = [a \in Actors |-> 0]
    /\ files = {}
    /\ pc = [c \in Cmds |-> IF c <= n THEN "idle" ELSE "unused"]
    /\ cmd = [c \in Cmds |-> NoEvent]
    /\ adm = [c \in Cmds |-> NoAdm]
    /\ task_id = [c \in Cmds |-> 0]
    /\ loc = [c \in Cmds |-> NoLoc]
    /\ log = [c \in Cmds |-> << >>]

Init == InitWith(Concurrent, MaxFaults, Configs, MaxTime)
InitSolo == InitWith(1, SoloFaults, ConfigsSolo, MaxTime)
InitAdmission == InitWith(NCmds, 0, ConfigsAdmission, 0)
InitAccess == InitWith(NCmds, 0, ConfigsAccess, 0)
InitExtract == InitWith(1, 1, ConfigsExtract, MaxTime)
InitRace == InitWith(Concurrent, 0, Configs, MaxTime)

Ev(e, a) == [ev |-> e, arg |-> a]

\* The coroutine of command c goes on to p, having done evs.
Goto(c, p, evs) ==
    /\ pc' = [pc EXCEPT ![c] = p]
    /\ log' = [log EXCEPT ![c] = @ \o evs]

\* An await ends in a failure (an exception, a timeout, an error status) only
\* while the budget of failures lasts.
Outcome(failed) ==
    /\ failed => faults > 0
    /\ faults' = IF failed THEN faults - 1 ELSE faults

\* ------------------------------------------------- cmd_generate_video
\* The handler from its call to its first suspension: _check_group_access (which
\* does not suspend: the group's lock is free whenever a coroutine is suspended),
\* the dedup check, and _extract_images_from_message up to convert_to_base64.
CmdArrive(c, a, g, img, t) ==
    /\ pc[c] = "idle"
    /\ \A d \in Cmds : d < c => pc[d] # "idle"
    /\ t >= now
    /\ c = 1 => a = "u1"
    /\ now' = t
    /\ cmd' = [cmd EXCEPT ![c] = [sender |-> a, group |-> g, images |-> img]]
    /\ LET refusal == GroupRefusal(g)
           limited == RateLimited(g)
           r == IF limited
                THEN RateCheck(rate_limit_bucket, g, t,
                               cfg.rate_limit_window_seconds, cfg.rate_limit_max_calls)
                ELSE [denied |-> FALSE, bucket |-> NoBucket]
           arrive == Ev("arrive", IF processing_tasks[a] # 0 THEN "busy" ELSE "free")
       IN
       /\ rate_limit_locks' = IF limited THEN rate_limit_locks \cup {g}
                              ELSE rate_limit_locks
       /\ rate_limit_bucket' = IF limited
                               THEN [rate_limit_bucket EXCEPT ![g] = r.bucket]
                               ELSE rate_limit_bucket
       /\ adm' = [adm EXCEPT ![c] =
                    IF limited
                    THEN [checked |-> TRUE, group |-> g, t |-> t,
                          before |-> rate_limit_bucket[g], after |-> r.bucket,
                          denied |-> r.denied]
                    ELSE NoAdm]
       /\ IF refusal # "" THEN Goto(c, "done", << arrive, Ev("reply", refusal) >>)
          ELSE IF r.denied THEN Goto(c, "done", << arrive, Ev("reply", "RateLimited") >>)
          ELSE IF processing_tasks[a] # 0
               THEN Goto(c, "done", << arrive, Ev("reply", "DuplicateInFlight") >>)
          ELSE IF ~img THEN Goto(c, "done", << arrive, Ev("reply", "NoImage") >>)
          ELSE Goto(c, "h_conv", << arrive >>)
    /\ UNCHANGED << cfg, faults, processing_tasks, files, task_id, loc >>

\* convert_to_base64 returns (ok: some image came out of it): the handler
\* inserts its task id and yields the progress message.
CmdImages(c, ok) ==
    /\ pc[c] = "h_conv"
    /\ Outcome(~ok)
    /\ IF ok
       THEN /\ task_id' = [task_id EXCEPT ![c] = c]
            /\ processing_tasks' = [processing_tasks EXCEPT ![cmd[c].sender] = c]
            /\ Goto(c, "h_yield", << Ev("insert", "") , Ev("reply", "Generating") >>)
       ELSE /\ Goto(c, "done", << Ev("reply", "NoImage") >>)
            /\ UNCHANGED << task_id, processing_tasks >>
    /\ UNCHANGED << cfg, now, rate_limit_bucket, rate_limit_locks, files, cmd, adm, loc >>

\* The host resumes the generator after the yield: asyncio.create_task.
CmdLaunch(c) ==
    /\ pc[c] = "h_yield"
    /\ Goto(c, "r_start", << Ev("create_task", "") >>)
    /\ UNCHANGED << cfg, now, faults, rate_limit_bucket, rate_limit_locks, processing_tasks,
                    files, cmd, adm, task_id, loc >>

\* The handler does not get from the yield of the progress message to the end
\* of its try block.
\*   "closed": the host stops iterating and the generator is closed at the
\*             yield; GeneratorExit is no Exception, the handler just ends;
\*   "raised": an exception reaches the try block; `except Exception` yields
\*             the error message.
\* Neither path touches self._processing_tasks, and no run is launched.
Abandons == {"closed", "raised"}
CmdAbandon(c, how) ==
    /\ pc[c] = "h_yield"
    /\ Outcome(TRUE)
    /\ Goto(c, "done", IF how = "raised"
                       THEN << Ev("abandon", how), Ev("reply", "HandlerException") >>
                       ELSE << Ev("abandon", how) >>)
    /\ UNCHANGED << cfg, now, rate_limit_bucket, rate_limit_locks, processing_tasks,
                    files, cmd, adm, task_id, loc >>

\* ------------------------------------------------- _async_generate_video
\* filename = f"grok_video_{now}_{uuid}.mp4": a fresh name per download.
FileName(c) == "grok_video_" \o ToString(c) \o ".mp4"
\* str((self.videos_dir / filename).resolve())
LocalPath(c) == << "/", "videos/", FileName(c) >>

\* `if user_id in self._processing_tasks and self._processing_tasks[user_id] == task_id`
OwnsEntryAny(tasks, user, tid) == tasks[user] # 0
OwnsEntry(tasks, user, tid) == tasks[user] # 0 /\ tasks[user] = tid

\* del self._processing_tasks[user_id], under the test above
ReleaseTask(tasks, user, tid) ==
    IF OwnsEntry(tasks, user, tid) THEN [tasks EXCEPT ![user] = 0] ELSE tasks

\* _cleanup_video_file: what it does to the storage directory and logs.  An
\* exception of path.unlink() (unlinkOk = FALSE) is caught inside it.
CleanupFiles(fs, c, video_path, unlinkOk) ==
    IF video_path # Empty /\ cfg.save_video_enabled /\ FileName(c) \in fs /\ unlinkOk
    THEN fs \ {FileName(c)}
    ELSE fs

CleanupEvents(fs, c, video_path, unlinkOk) ==
    IF video_path # Empty /\ cfg.save_video_enabled /\ FileName(c) \in fs
    THEN << Ev("unlink", IF unlinkOk THEN "deleted" ELSE "error swallowed") >>
    ELSE << >>

\* Whether an exception of the file deletion leaves _cleanup_video_file.
CleanupRaisesLeaky(fs, c, video_path, unlinkOk) ==
    video_path # Empty /\ FileName(c) \in fs /\ ~unlinkOk
CleanupRaises(fs, c, video_path, unlinkOk) == FALSE

\* The finally block (no await in it suspends): cleanup of the file, then the
\* release of the dedup entry.  The coroutine ends; `escaped` records that an
\* exception left it.
Finally(c, evs, video_path, escaped) ==
    \E unlinkOk \in BOOLEAN :
       /\ (video_path = Empty \/ FileName(c) \notin files) => unlinkOk
       /\ ~unlinkOk => faults > 0
       /\ files' = CleanupFiles(files, c, video_path, unlinkOk)
       /\ LET raised == CleanupRaises(files, c, video_path, unlinkOk)
              owns == OwnsEntry(processing_tasks, cmd[c].sender, task_id[c])
          IN
          /\ processing_tasks' =
                IF raised THEN processing_tasks
                ELSE ReleaseTask(processing_tasks, cmd[c].sender, task_id[c])
          /\ loc' = [loc EXCEPT ![c].video_path = video_path,
                                ![c].escaped = escaped \/ raised]
          /\ Goto(c, "done",
                  evs \o << Ev("cleanup", "") >>
                      \o CleanupEvents(files, c, video_path, unlinkOk)
                      \o (IF ~raised /\ owns THEN << Ev("release", "") >> ELSE << >>))

\* `if error_msg: await event.send(event.plain_result(f"X {error_msg}"))`
\* after _generate_video_core returned (None, None, error_msg).
ReportError(c, msg, evs) ==
    /\ loc' = [loc EXCEPT ![c].error_msg = msg]
    /\ Goto(c, "r_msg_err", evs \o << Ev("send", msg) >>)

\* _call_grok_api returns res to _generate_video_core, which hands an error to
\* the run (it sends it to the actor) and goes on to _download_video's
\* client.get with a URL.  l holds the locals of c.
ApiReturn(c, l, res, evs) ==
    IF res.err # ""
    THEN /\ loc' = [loc EXCEPT ![c] = [l EXCEPT !.api = res, !.error_msg = res.err]]
         /\ Goto(c, "r_msg_err", evs \o << Ev("send", res.err) >>)
    ELSE IF res.url = Empty
    THEN /\ loc' = [loc EXCEPT ![c] = [l EXCEPT !.api = res, !.error_msg = "NoUrlReturned"]]
         /\ Goto(c, "r_msg_err", evs \o << Ev("send", "NoUrlReturned") >>)
    ELSE /\ loc' = [loc EXCEPT ![c] = [l EXCEPT !.api = res, !.video_url = res.url]]
         /\ Goto(c, "r_get", evs \o << Ev("download", "") >>)

\* The task starts: _generate_video_core up to convert_to_base64.
RunStart(c) ==
    /\ pc[c] = "r_start"
    /\ IF ~cfg.enabled
       THEN ReportError(c, "Disabled", << >>)
       ELSE Goto(c, "r_conv", << >>) /\ UNCHANGED loc
    /\ UNCHANGED << cfg, now, faults, rate_limit_bucket, rate_limit_locks, processing_tasks,
                    files, cmd, adm, task_id >>

\* convert_to_base64 returns; _call_grok_api up to its first client.post.
RunImages(c, ok) ==
    /\ pc[c] = "r_conv"
    /\ Outcome(~ok)
    /\ IF ~ok THEN ReportError(c, "NoImage", << >>)
       ELSE IF ~cfg.api_key
            THEN ApiReturn(c, loc[c], Result(Empty, "NoApiKey"), << Ev("api", "") >>)
       ELSE IF cfg.max_retry_attempts <= 0
            THEN ApiReturn(c, loc[c], Result(Empty, "AllRetriesFailed"), << Ev("api", "") >>)
       ELSE /\ loc' = [loc EXCEPT ![c].attempt = 0]
            /\ Goto(c, "r_post", << Ev("api", ""), Ev("post", "") >>)
    /\ UNCHANGED << cfg, now, rate_limit_bucket, rate_limit_locks, processing_tasks,
                    files, cmd, adm, task_id >>

\* What one attempt of _call_grok_api can end in: client.post raises
\* TimeoutException or another exception, or answers with a status; with 200,
\* response.json() returns the body, raises JSONDecodeError ("OkBadJson"), or
\* raises another exception ("OkBadBytes": UnicodeDecodeError for bytes that
\* are no UTF-8, RecursionError for a body nested too deep).
Responses == {"Timeout", "Exception", "Status500", "Status403",
              "Ok200", "OkBadJson", "OkBadBytes"}

\* The attempts the loop goes round again for: those that end in the
\* `except httpx.TimeoutException`, in the `except Exception`, or in the
\* `else` of the status tests.
RetryableWith403(resp) ==
    resp \in {"Timeout", "Exception", "OkBadBytes", "Status500", "Status403"}
Retryable(resp) == resp \in {"Timeout", "Exception", "OkBadBytes", "Status500"}

\* if attempt == self.max_retry_attempts - 1: return None, error_msg
LastAttemptNever(attempt, n) == FALSE
LastAttempt(attempt, n) == attempt = n - 1

\* await asyncio.sleep(2) after a status, asyncio.sleep(1) after an exception
Backoff(resp) == IF resp = "Status500" THEN "2" ELSE "1"

\* error_msg of the attempt: each kind of failure words its own.
ErrorMsgGeneric(resp) == "AllRetriesFailed"
ErrorMsg(resp) == resp

\* What the client returns for a 200 whose body was decoded, given what the
\* extraction returned.
Ok200ResultNoError(ex) == Result(ex.url, "")
Ok200Result(ex) ==
    IF ex.err # "" THEN Result(Empty, ex.err)
    ELSE IF ex.url # Empty THEN Result(ex.url, "")
    ELSE Result(Empty, "NoValidUrlInResponse")

\* How the attempt shows in the log.
ResponseTag(resp, b) ==
    IF resp # "Ok200" THEN resp
    ELSE IF Ok200Result(ExtractVideoUrlFromResponse(b)).url # Empty THEN "OkUrl"
    ELSE "OkNoUrl"

\* client.post returns or raises (resp); b is the decoded body of a 200.
ApiResponse(c, resp, b) ==
    /\ pc[c] = "r_post"
    /\ (resp = "Ok200") <=> (b # NoBody)
    /\ Outcome(ResponseTag(resp, b) # "OkUrl")
    /\ IF resp = "Ok200"
       THEN LET ex == ExtractVideoUrlFromResponse(b) IN
            ApiReturn(c, [loc[c] EXCEPT !.body = b, !.extracted = ex], Ok200Result(ex),
                      << Ev("response", ResponseTag(resp, b)) >>)
       ELSE IF Retryable(resp) /\ ~LastAttempt(loc[c].attempt, cfg.max_retry_attempts)
       THEN /\ Goto(c, "r_sleep", << Ev("response", resp), Ev("sleep", Backoff(resp)) >>)
            /\ UNCHANGED loc
       ELSE ApiReturn(c, loc[c], Result(Empty, ErrorMsg(resp)), << Ev("response", resp) >>)
    /\ UNCHANGED << cfg, now, rate_limit_bucket, rate_limit_locks, processing_tasks,
                    files, cmd, adm, task_id >>

\* asyncio.sleep returns: the next round of `for attempt in range(...)`.
ApiWake(c) ==
    /\ pc[c] = "r_sleep"
    /\ loc' = [loc EXCEPT ![c].attempt = @ + 1]
    /\ Goto(c, "r_post", << Ev("post", "") >>)
    /\ UNCHANGED << cfg, now, faults, rate_limit_bucket, rate_limit_locks, processing_tasks,
                    files, cmd, adm, task_id >>

\* _download_video: client.get answers, then open() and f.write().
\*   "Ok": the file is written;  "HttpFail": get or raise_for_status raised;
\*   "OpenFail": open() raised;  "WriteFail": f.write() raised, the file exists.
Downloads == {"Ok", "HttpFail", "OpenFail", "WriteFail"}

\* What _download_video returns: the path, or None from its except block.
DownloadedPathAlways(c, out) == LocalPath(c)
DownloadedPath(c, out) == IF out = "Ok" THEN LocalPath(c) ELSE Empty

\* The run never takes the `else` of `if video_path` (its "generation failed"
\* message): _generate_video_core returns no error only with a local path.
Download(c, out) ==
    /\ pc[c] = "r_get"
    /\ Outcome(out # "Ok")
    /\ files' = IF out \in {"Ok", "WriteFail"} THEN files \cup {FileName(c)} ELSE files
    /\ IF DownloadedPath(c, out) # Empty
       THEN /\ loc' = [loc EXCEPT ![c].video_path = DownloadedPath(c, out)]
            /\ Goto(c, "r_msg_sending", << Ev("download_result", out), Ev("send", "Sending") >>)
       ELSE ReportError(c, "DownloadFailed", << Ev("download_result", out) >>)
    /\ UNCHANGED << cfg, now, rate_limit_bucket, rate_limit_locks, processing_tasks,
                    cmd, adm, task_id >>

\* What an awaited event.send can end in: it returns, or raises an exception
\* whose text holds "WebSocket API call timeout", or raises another exception.
Sends == {"Ok", "WsTimeout", "Error"}
\* asyncio.wait_for(event.send(...), timeout=90.0) can also raise TimeoutError.
VideoSends == Sends \cup {"Timeout"}

\* forwarded_path.startswith(("http://", "https://"))
IsUrl(path) == Len(path) > 0 /\ path[1] \in {"http://", "https://"}

\* What send_file can return: nothing, a URL, or a path of the relay's own.
RelayReturns == { Empty,
                  << "http://", "relay/", "v.mp4" >>,
                  << "https://", "relay/", "v.mp4" >>,
                  << "/", "napcat/", "v.mp4" >> }

\* _prepare_video_path once send_file has returned ret or raised.
PreparedPathAny(video_path, ret, raised) ==
    IF ~raised /\ ret # Empty THEN ret ELSE video_path
PreparedPath(video_path, ret, raised) ==
    IF ~raised /\ ret # Empty /\ ~IsUrl(ret) THEN ret ELSE video_path

\* _create_video_component: Video.fromFileSystem(path=video_path)
VideoComponent(path) == [kind |-> "fromFileSystem", path |-> path]

\* The inner `except Exception as e` of the delivery block: a warning when the
\* text of e holds "WebSocket API call timeout", else the failure message.
InnerExcept(c, exc, evs) ==
    IF exc = "WsTimeout"
    THEN Goto(c, "r_msg_warn_ws", evs \o << Ev("send", "TimeoutWarning") >>)
    ELSE Goto(c, "r_msg_fail", evs \o << Ev("send", "DeliveryFailed") >>)

\* The outer `except Exception as e`: the generic message.
OuterExcept(c, evs) ==
    Goto(c, "r_msg_generic", evs \o << Ev("send", "Problem") >>)

\* video_component = ...; await asyncio.wait_for(event.send(chain), timeout=90.0)
StartDelivery(c, path, fwd, evs) ==
    /\ loc' = [loc EXCEPT ![c].component = VideoComponent(path), ![c].forwarded = fwd,
                          ![c].send = "running"]
    /\ Goto(c, "r_video", evs \o << Ev("prepared", ""), Ev("video", "fromFileSystem") >>)

\* The send of the error message returns or raises; `return`, then finally.
MsgErr(c, out) ==
    /\ pc[c] = "r_msg_err"
    /\ Outcome(out # "Ok")
    /\ IF out = "Ok"
       THEN Finally(c, << >>, loc[c].video_path, FALSE)
       ELSE OuterExcept(c, << Ev("raised", out) >>) /\ UNCHANGED << files, processing_tasks, loc >>
    /\ UNCHANGED << cfg, now, rate_limit_bucket, rate_limit_locks, cmd, adm, task_id >>

\* The send of the generic message returns or raises (the exception then leaves
\* the coroutine, after the finally block).
MsgGeneric(c, out) ==
    /\ pc[c] = "r_msg_generic"
    /\ Outcome(out # "Ok")
    /\ Finally(c, IF out = "Ok" THEN << >> ELSE << Ev("raised", out) >>,
               loc[c].video_path, out # "Ok")
    /\ UNCHANGED << cfg, now, rate_limit_bucket, rate_limit_locks, cmd, adm, task_id >>

\* The send of "sending the video file" returns or raises; _prepare_video_path
\* up to send_file, or, with no relay, on to the send of the video.
MsgSending(c, out) ==
    /\ pc[c] = "r_msg_sending"
    /\ Outcome(out # "Ok")
    /\ IF out # "Ok"
       THEN InnerExcept(c, out, << Ev("raised", out) >>) /\ UNCHANGED loc
       ELSE IF cfg.relay
       THEN Goto(c, "r_relay", << Ev("relay", "") >>) /\ UNCHANGED loc
       ELSE StartDelivery(c, loc[c].video_path, NoForward, << >>)
    /\ UNCHANGED << cfg, now, rate_limit_bucket, rate_limit_locks, processing_tasks,
                    files, cmd, adm, task_id >>

\* send_file returns ret, or raises.
Relay(c, ret, raised) ==
    /\ pc[c] = "r_relay"
    /\ raised => ret = Empty
    /\ Outcome(raised)
    /\ StartDelivery(c, PreparedPath(loc[c].video_path, ret, raised),
                     [asked |-> TRUE, raised |-> raised, ret |-> ret], << >>)
    /\ UNCHANGED << cfg, now, rate_limit_bucket, rate_limit_locks, processing_tasks,
                    files, cmd, adm, task_id >>

\* What has become of the coroutine event.send(chain) when the wait on it ends:
\* it returned, it raised, or, when the 90 seconds ran out, asyncio.wait_for
\* cancelled it and raised TimeoutError once the cancellation was done.
SendAfterWait(out) ==
    CASE out = "Ok" -> "returned"
      [] out = "Timeout" -> "cancelled"
      [] OTHER -> "raised"

\* The bounded wait on the send of the video ends.
VideoSend(c, out) ==
    /\ pc[c] = "r_video"
    /\ Outcome(out # "Ok")
    /\ loc' = [loc EXCEPT ![c].send = SendAfterWait(out)]
    /\ IF out = "Ok"
       THEN Goto(c, "r_msg_ok", << Ev("video_sent", ""), Ev("send", "Success") >>)
       ELSE IF out = "Timeout"
       THEN Goto(c, "r_msg_warn", << Ev("video_timeout", ""), Ev("send", "TimeoutWarning") >>)
       ELSE InnerExcept(c, out, << Ev("raised", out) >>)
    /\ UNCHANGED << cfg, now, rate_limit_bucket, rate_limit_locks, processing_tasks,
                    files, cmd, adm, task_id >>

\* The send of the success message, or of the warning after TimeoutError,
\* returns or raises: both stand inside the inner try.
MsgInner(c, out) ==
    /\ pc[c] \in {"r_msg_ok", "r_msg_warn"}
    /\ Outcome(out # "Ok")
    /\ IF out = "Ok"
       THEN Finally(c, << >>, loc[c].video_path, FALSE)
       ELSE InnerExcept(c, out, << Ev("raised", out) >>) /\ UNCHANGED << files, processing_tasks, loc >>
    /\ UNCHANGED << cfg, now, rate_limit_bucket, rate_limit_locks, cmd, adm, task_id >>

\* A send made by the inner except block returns or raises.
MsgHandler(c, out) ==
    /\ pc[c] \in {"r_msg_warn_ws", "r_msg_fail"}
    /\ Outcome(out # "Ok")
    /\ IF out = "Ok"
       THEN Finally(c, << >>, loc[c].video_path, FALSE)
       ELSE OuterExcept(c, << Ev("raised", out) >>) /\ UNCHANGED << files, processing_tasks, loc >>
    /\ UNCHANGED << cfg, now, rate_limit_bucket, rate_limit_locks, cmd, adm, task_id >>

Next ==
    \/ \E c \in Cmds, a \in Actors, g \in Groups \cup {NoGroup}, img \in BOOLEAN,
          t \in 0..MaxTime : CmdArrive(c, a, g, img, t)
    \/ \E c \in Cmds, ok \in BOOLEAN : CmdImages(c, ok)
    \/ \E c \in Cmds : CmdLaunch(c)
    \/ \E c \in Cmds : RunStart(c)
    \/ \E c \in Cmds, ok \in BOOLEAN : RunImages(c, ok)
    \/ \E c \in Cmds, resp \in Responses, b \in FewBodies \cup {NoBody} :
          ApiResponse(c, resp, b)
    \/ \E c \in Cmds : ApiWake(c)
    \/ \E c \in Cmds, out \in Downloads : Download(c, out)
    \/ \E c \in Cmds, out \in Sends : MsgErr(c, out)
    \/ \E c \in Cmds, out \in Sends : MsgGeneric(c, out)
    \/ \E c \in Cmds, out \in Sends : MsgSending(c, out)
    \/ \E c \in Cmds, ret \in RelayReturns, raised \in BOOLEAN : Relay(c, ret, raised)
    \/ \E c \in Cmds, out \in VideoSends : VideoSend(c, out)
    \/ \E c \in Cmds, out \in Sends : MsgInner(c, out)
    \/ \E c \in Cmds, out \in Sends : MsgHandler(c, out)

\* The same steps, with more kinds of bodies.
NextSolo ==
    \/ \E c \in Cmds, a \in Actors, g \in Groups \cup {NoGroup}, img \in BOOLEAN,
          t \in 0..MaxTime : CmdArrive(c, a, g, img, t)
    \/ \E c \in Cmds, ok \in BOOLEAN : CmdImages(c, ok)
    \/ \E c \in Cmds : CmdLaunch(c)
    \/ \E c \in Cmds, how \in Abandons : CmdAbandon(c, how)
    \/ \E c \in Cmds : RunStart(c)
    \/ \E c \in Cmds, ok \in BOOLEAN : RunImages(c, ok)
    \/ \E c \in Cmds, resp \in Responses, b \in SoloBodies \cup {NoBody} :
          ApiResponse(c, resp, b)
    \/ \E c \in Cmds : ApiWake(c)
    \/ \E c \in Cmds, out \in Downloads : Download(c, out)
    \/ \E c \in Cmds, out \in Sends : MsgErr(c, out)
    \/ \E c \in Cmds, out \in Sends : MsgGeneric(c, out)
    \/ \E c \in Cmds, out \in Sends : MsgSending(c, out)
    \/ \E c \in Cmds, ret \in RelayReturns, raised \in BOOLEAN : Relay(c, ret, raised)
    \/ \E c \in Cmds, out \in VideoSends : VideoSend(c, out)
    \/ \E c \in Cmds, out \in Sends : MsgInner(c, out)
    \/ \E c \in Cmds, out \in Sends : MsgHandler(c, out)

\* The command up to the answer of the API, over every body.
NextExtract ==
    \/ \E c \in Cmds, a \in Actors, g \in {NoGroup}, img \in BOOLEAN,
          t \in 0..MaxTime : CmdArrive(c, a, g, img, t)
    \/ \E c \in Cmds, ok \in BOOLEAN : CmdImages(c, ok)
    \/ \E c \in Cmds : CmdLaunch(c)
    \/ \E c \in Cmds : RunStart(c)
    \/ \E c \in Cmds, ok \in BOOLEAN : RunImages(c, ok)
    \/ \E c \in { d \in Cmds : pc[d] = "r_post" }, b \in Bodies : ApiResponse(c, "Ok200", b)

\* Commands whose awaits all succeed.
NextRace ==
    \/ \E c \in Cmds, a \in Actors, g \in {NoGroup}, img \in BOOLEAN,
          t \in 0..MaxTime : CmdArrive(c, a, g, img, t)
    \/ \E c \in Cmds, ok \in BOOLEAN : CmdImages(c, ok)
    \/ \E c \in Cmds : CmdLaunch(c)
    \/ \E c \in Cmds : RunStart(c)
    \/ \E c \in Cmds, ok \in BOOLEAN : RunImages(c, ok)
    \/ \E c \in Cmds : ApiResponse(c, "Ok200", GoodBody)
    \/ \E c \in Cmds, out \in Downloads : Download(c, out)
    \/ \E c \in Cmds, out \in Sends : MsgSending(c, out)
    \/ \E c \in Cmds, ret \in RelayReturns, raised \in BOOLEAN : Relay(c, ret, raised)
    \/ \E c \in Cmds, out \in VideoSends : VideoSend(c, out)
    \/ \E c \in Cmds, out \in Sends : MsgInner(c, out)

\* The admission checks alone.  Only the first block of the handler reads or
\* writes the rate limiter, and it does so without suspending, so the order
\* and the times of the arrivals are all that the limiter's state depends on.
NextAdmission ==
    \/ \E c \in Cmds, a \in Actors, g \in Groups \cup {NoGroup}, img \in BOOLEAN,
          t \in 0..MaxTime : CmdArrive(c, a, g, img, t)

\* Two commands at once.
Spec == Init /\ [][Next]_vars
\* One command, and more failures in its run.
SpecSolo == InitSolo /\ [][NextSolo]_vars
\* The same where no coroutine that can take a step waits forever: the event
\* loop resumes every coroutine whose await has ended, and every await of the
\* run ends (the HTTP clients and the video send carry timeouts).
SpecSoloFair == SpecSolo /\ WF_vars(NextSolo)
\* More commands, for the admission check.
SpecAdmission == InitAdmission /\ [][NextAdmission]_vars
\* The admission check under every group control mode.
SpecAccess == InitAccess /\ [][NextAdmission]_vars
\* Commands at once whose awaits all succeed, for the release of the entry.
SpecRace == InitRace /\ [][NextRace]_vars
\* One command, for the extraction of the URL from the body.
SpecExtract == InitExtract /\ [][NextExtract]_vars
\* ================================================================ claims
Has(c, e) == \E i \in DOMAIN log[c] : log[c][i].ev = e
HasEv(c, e, a) == \E i \in DOMAIN log[c] : log[c][i] = Ev(e, a)
\* The run of command c was launched / has ended / is in flight.
Launched(c) == Has(c, "create_task")
Ended(c) == Launched(c) /\ pc[c] = "done"
InFlight(c) == Launched(c) /\ pc[c] # "done"

\* C1: every run that has ended, on whatever path, went through the final
\* cleanup: the deletion of its downloaded file was attempted, no entry of the
\* dedup map carries its task id, and an error of the deletion was swallowed
\* (it neither left the cleanup nor kept the entry from being released).
C1_CleanupOnEveryExit ==
    \A c \in Cmds :
        Ended(c) =>
            /\ Has(c, "cleanup")
            /\ loc[c].video_path # Empty => Has(c, "unlink")
            /\ processing_tasks[cmd[c].sender] # task_id[c]
            /\ (HasEv(c, "unlink", "error swallowed") /\ ~HasEv(c, "raised", "Error")
                    /\ ~HasEv(c, "raised", "WsTimeout")) => ~loc[c].escaped

\* A run that went through the outer except block, whose file deletion raised,
\* and that released its entry.
C1_Witness ==
    \E c \in Cmds :
        /\ Ended(c)
        /\ HasEv(c, "send", "Problem")
        /\ HasEv(c, "unlink", "error swallowed")
        /\ Has(c, "release")

\* C2: there are never two runs of the same actor in flight.
C2_OneRunPerActor ==
    \A c, d \in Cmds :
        (c # d /\ InFlight(c) /\ InFlight(d)) => cmd[c].sender # cmd[d].sender

\* The commands admitted by the rate limiter of group g in the window that
\* started at w.
AdmittedIn(g, w) ==
    { c \in Cmds : adm[c].checked /\ adm[c].group = g /\ ~adm[c].denied
                   /\ adm[c].after.window_start = w }

\* C3: for every group the stored count never exceeds the capacity, every
\* admitted command falls inside its window, no window admits more than the
\* capacity, and a command checked in a window that has admitted the capacity
\* is denied.
C3_RateCap ==
    \A g \in Groups :
        /\ rate_limit_bucket[g] # NoBucket =>
              rate_limit_bucket[g].count <= cfg.rate_limit_max_calls
        /\ \A w \in 0..now :
              Cardinality(AdmittedIn(g, w)) <= cfg.rate_limit_max_calls
        /\ \A c \in Cmds :
              (adm[c].checked /\ adm[c].group = g /\ ~adm[c].denied) =>
                  /\ adm[c].after.window_start <= adm[c].t
                  /\ adm[c].t < adm[c].after.window_start + cfg.rate_limit_window_seconds
        /\ \A c \in Cmds :
              ( /\ adm[c].checked /\ adm[c].group = g
                /\ adm[c].before # NoBucket
                /\ adm[c].t < adm[c].before.window_start + cfg.rate_limit_window_seconds
                /\ Cardinality({ d \in AdmittedIn(g, adm[c].before.window_start) : d < c })
                      >= cfg.rate_limit_max_calls )
              => adm[c].denied

\* A command denied because its window had admitted the capacity, of 2.
C3_Witness ==
    \E c \in Cmds :
        /\ adm[c].checked /\ adm[c].denied
        /\ cfg.rate_limit_max_calls = 2
        /\ Cardinality(AdmittedIn(adm[c].group, adm[c].before.window_start)) = 2
\* C4 (as claimed): from the insertion of its task id until its run has ended,
\* the actor's entry holds the task id of command c; the entry is released at
\* most once, and only as the run ends; a command that arrives while its actor
\* has an entry inserts nothing.
C4_EntryHeldUntilTerminal ==
    \A c \in Cmds :
        /\ (task_id[c] # 0 /\ pc[c] # "done") =>
               processing_tasks[cmd[c].sender] = task_id[c]
        /\ Has(c, "release") => pc[c] = "done"
        /\ Len(SelectSeq(log[c], LAMBDA e : e.ev = "release")) <= 1
        /\ HasEv(c, "arrive", "busy") => ~Has(c, "insert")

Proj(c, evs) == SelectSeq(log[c], LAMBDA e : e.ev \in evs)
\* Where e first stands in the log of c (0: nowhere).
Idx(c, e) ==
    IF Has(c, e)
    THEN CHOOSE i \in DOMAIN log[c] :
            log[c][i].ev = e /\ \A j \in 1..(i - 1) : log[c][j].ev # e
    ELSE 0

\* C5: a call never makes more than max_retry_attempts requests; when k - 1
\* retryable failures are followed by a 200 with a video URL, the call made
\* exactly k requests, slept once before each of the requests 2..k and not
\* after the last, and returned the URL (the run goes on to the download).
C5_RetryThenSuccess ==
    \A c \in Cmds :
        LET tr == Proj(c, {"post", "response", "sleep"})
            rs == Proj(c, {"response"})
            k == Len(rs)
        IN
        /\ Len(Proj(c, {"post"})) <= cfg.max_retry_attempts
        /\ ( /\ k >= 1
             /\ rs[k].arg = "OkUrl"
             /\ \A i \in 1..(k - 1) : rs[i].arg \in {"Timeout", "Exception", "Status500"} )
           => /\ Len(Proj(c, {"post"})) = k
              /\ Len(Proj(c, {"sleep"})) = k - 1
              /\ Len(tr) = 3 * k - 1
              /\ \A i \in DOMAIN tr :
                    tr[i].ev = CASE i % 3 = 1 -> "post"
                                 [] i % 3 = 2 -> "response"
                                 [] OTHER -> "sleep"
              /\ loc[c].video_url # Empty
              /\ Has(c, "download")

\* Status 500 twice, then 200 with a video URL.
C5_Witness ==
    \E c \in Cmds :
        Proj(c, {"response"}) = << Ev("response", "Status500"),
                                   Ev("response", "Status500"),
                                   Ev("response", "OkUrl") >>

\* C6: a 403 is the last thing the client does: no request and no sleep follow
\* it, and the call returns the access-denied error.
C6_ForbiddenIsTerminal ==
    \A c \in Cmds :
        LET tr == Proj(c, {"post", "response", "sleep"}) IN
        \A i \in DOMAIN tr :
            tr[i] = Ev("response", "Status403") =>
                /\ i = Len(tr)
                /\ loc[c].error_msg = "Status403"
                /\ loc[c].video_url = Empty
                /\ ~Has(c, "download")

\* A 403 on the second attempt, and the run has ended.
C6_Witness ==
    \E c \in Cmds :
        /\ Ended(c)
        /\ Proj(c, {"response"}) = << Ev("response", "Timeout"),
                                      Ev("response", "Status403") >>

Rank(e) ==
    CASE e = "api" -> 1 [] e = "download" -> 2 [] e = "prepared" -> 3
      [] e = "video" -> 4 [] e = "cleanup" -> 5

\* What _call_grok_api can return as its error.
ApiErrors == {"NoApiKey", "AllRetriesFailed", "Timeout", "Exception", "OkBadBytes",
              "Status500", "Status403", "OkBadJson", "NoValidUrlFound",
              "InvalidResponseFormat", "MissingChoices", "MissingMessage",
              "MissingContent", "ContentNotString", "ExtractionException"}

\* C7: the steps of a run come in the order API call, download, prepare,
\* delivery send, cleanup, each at most once; a download follows a video URL; a
\* delivery send follows a downloaded path; an API error is what the run sends
\* the actor, with no download; a failed download makes the run send the
\* download-failed message, with no delivery; the file stays until the run
\* ends, is deleted after the delivery send, and the run's entry is gone then.
C7_StepOrder ==
    \A c \in Cmds :
        LET steps == Proj(c, {"api", "download", "prepared", "video", "cleanup"})
            sends == Proj(c, {"send"})
        IN
        /\ \A i, j \in DOMAIN steps : i < j => Rank(steps[i].ev) < Rank(steps[j].ev)
        /\ Has(c, "download") =>
              /\ HasEv(c, "response", "OkUrl")
              /\ Idx(c, "response") <= Idx(c, "download")
              /\ log[c][Idx(c, "download") - 1] = Ev("response", "OkUrl")
        /\ Has(c, "video") =>
              /\ HasEv(c, "download_result", "Ok")
              /\ Idx(c, "download_result") < Idx(c, "video")
        /\ loc[c].error_msg \in ApiErrors =>
              /\ sends[1] = Ev("send", loc[c].error_msg)
              /\ ~Has(c, "download") /\ ~Has(c, "video")
        /\ (Has(c, "download_result") /\ ~HasEv(c, "download_result", "Ok")) =>
              /\ sends[1] = Ev("send", "DownloadFailed")
              /\ ~Has(c, "prepared") /\ ~Has(c, "video")
        /\ (loc[c].video_path # Empty /\ ~Ended(c)) => FileName(c) \in files
        /\ (Ended(c) /\ Has(c, "video_sent")) =>
              /\ Has(c, "unlink")
              /\ Idx(c, "video_sent") < Idx(c, "unlink")
              /\ processing_tasks[cmd[c].sender] # task_id[c]

\* A run that delivered the video, reported success and deleted the file.
C7_Witness ==
    \E c \in Cmds :
        /\ Ended(c)
        /\ HasEv(c, "send", "Success")
        /\ HasEv(c, "unlink", "deleted")
        /\ FileName(c) \notin files

\* C8 (as claimed): after the bounded wait on the video has timed out the run
\* sends the warning, sends neither the failure nor the success message, and
\* ends with its file cleaned up and its entry released.
C8_TimeoutIsWarningOnly ==
    \A c \in Cmds :
        Has(c, "video_timeout") =>
            /\ HasEv(c, "send", "TimeoutWarning")
            /\ ~HasEv(c, "send", "DeliveryFailed")
            /\ ~HasEv(c, "send", "Success")
            /\ Ended(c) => /\ Has(c, "unlink")
                           /\ processing_tasks[cmd[c].sender] # task_id[c]

\* C9: the component handed to the delivery is a fromFileSystem unit; its path
\* is the relay's identifier when the relay returned one that is no URL, and
\* the downloaded local path in every other case; it never starts like a URL.
C9_LocalPathDelivered ==
    \A c \in Cmds :
        loc[c].component # NoComponent =>
            LET f == loc[c].forwarded
                p == loc[c].component.path
                used == /\ f.asked /\ ~f.raised /\ f.ret # Empty
                        /\ f.ret[1] \notin {"http://", "https://"}
            IN
            /\ loc[c].component.kind = "fromFileSystem"
            /\ \A i \in DOMAIN log[c] :
                  log[c][i].ev = "video" => log[c][i].arg = "fromFileSystem"
            /\ p = IF used THEN f.ret ELSE LocalPath(c)
            /\ p # Empty
            /\ p[1] \notin {"http://", "https://"}

\* The relay returned an https URL and the local path was delivered.
C9_Witness ==
    \E c \in Cmds :
        /\ loc[c].forwarded.asked
        /\ loc[c].forwarded.ret = << "https://", "relay/", "v.mp4" >>
        /\ loc[c].component = VideoComponent(LocalPath(c))
        /\ Has(c, "video_sent")

\* C10: a check made once the window has elapsed is admitted and leaves the
\* window at (now, 1); a check made inside the window keeps its start.
C10_WindowReset ==
    \A c \in Cmds :
        (adm[c].checked /\ adm[c].before # NoBucket) =>
            IF adm[c].t - adm[c].before.window_start >= cfg.rate_limit_window_seconds
            THEN /\ ~adm[c].denied
                 /\ adm[c].after = [window_start |-> adm[c].t, count |-> 1]
                 /\ rate_limit_bucket[adm[c].group].window_start >= adm[c].t
            ELSE adm[c].after.window_start = adm[c].before.window_start

\* A window that admitted its capacity and denied a command is reset by the
\* next command, exactly as the window ends.
C10_Witness ==
    \E c, d \in Cmds :
        /\ d < c
        /\ adm[d].checked /\ adm[d].denied
        /\ adm[c].checked /\ adm[c].group = adm[d].group
        /\ adm[c].before.count = cfg.rate_limit_max_calls
        /\ adm[c].t - adm[c].before.window_start = cfg.rate_limit_window_seconds
        /\ adm[c].after = [window_start |-> adm[c].t, count |-> 1]

\* C11 (as claimed): a command takes the dedup slot, is told "generating" or
\* has its task launched only if the feature is enabled, its admission check
\* passed, its actor had no entry and its message carried an image; with the
\* feature disabled or no image, no slot is taken and no request is posted.
C11_EntryOnlyWhenEnabled ==
    \A c \in Cmds :
        /\ (task_id[c] # 0 \/ HasEv(c, "reply", "Generating") \/ Launched(c)) =>
              /\ cfg.enabled
              /\ ~(adm[c].checked /\ adm[c].denied)
              /\ HasEv(c, "arrive", "free")
              /\ cmd[c].images
        /\ (Has(c, "arrive") /\ (~cfg.enabled \/ ~cmd[c].images)) =>
              /\ task_id[c] = 0
              /\ ~Has(c, "insert")
              /\ ~Has(c, "post")

\* C12 (as claimed): the step in which a command is rejected as a duplicate
\* leaves the dedup map and every group's rate window as they were.
C12_DuplicateChangesNothing ==
    [][ \A c \in Cmds :
          (~HasEv(c, "reply", "DuplicateInFlight") /\ HasEv(c, "reply", "DuplicateInFlight")')
              => /\ processing_tasks' = processing_tasks
                 /\ rate_limit_bucket' = rate_limit_bucket ]_vars

\* C15: the step in which a run ends removes its actor's entry exactly when the
\* entry holds the run's own task id, and changes nothing else of the map; when
\* the ids differ the map stays as it was.
C15_ReleaseOnlyOwnEntry ==
    [][ \A c \in Cmds :
          (Launched(c) /\ pc[c] # "done" /\ pc'[c] = "done") =>
              LET a == cmd[c].sender IN
              IF processing_tasks[a] = task_id[c]
              THEN processing_tasks' = [processing_tasks EXCEPT ![a] = 0]
              ELSE processing_tasks' = processing_tasks ]_vars

\* A run has ended while its actor's entry holds the task id of another run,
\* still in flight: the entry was left alone.
C15_Witness ==
    \E c, d \in Cmds :
        /\ c # d /\ cmd[c].sender = cmd[d].sender
        /\ Ended(c) /\ ~Has(c, "release")
        /\ InFlight(d)
        /\ processing_tasks[cmd[d].sender] = task_id[d]

\* C16 (as claimed): when the bounded wait on the send of the video has timed
\* out, the send itself has not been cancelled: it is still running or has
\* returned.
C16_SendSurvivesTimeout ==
    \A c \in Cmds :
        Has(c, "video_timeout") => loc[c].send \in {"running", "returned"}

Candidate(b) ==
    IF ResolveUrl(TryStructuredExtraction(b)) # Empty
    THEN TryStructuredExtraction(b)
    ELSE TryContentExtraction(b.content)

\* C14 (as claimed): the URL the extraction returns is the server's base URL
\* followed by the candidate when the candidate begins with "/", and the
\* candidate itself when it does not.
C14_LeadingSlashJoinsBase ==
    \A c \in Cmds :
        loc[c].extracted.url # Empty =>
            LET cand == Candidate(loc[c].body) IN
            loc[c].extracted.url = IF Head(cand) = "/" THEN cfg.server_url \o cand ELSE cand

\* C17 (as claimed): an attempt answered with status 200 is the last thing the
\* client does, whatever became of the body: no sleep and no request follow.
C17_Status200IsFinal ==
    \A c \in Cmds :
        LET tr == Proj(c, {"post", "response", "sleep"}) IN
        \A i \in DOMAIN tr :
            (tr[i].ev = "response" /\ tr[i].arg \in {"OkUrl", "OkNoUrl", "OkBadJson", "OkBadBytes"})
                => i = Len(tr)

\* C18: when every one of the N >= 1 configured attempts ended in a timeout, an
\* exception or a status other than 200 and 403, the client has returned, with
\* no URL and with the error message of the N-th attempt, and that message is
\* what the run sends the actor.
C18_LastErrorReturned ==
    \A c \in Cmds :
        LET rs == Proj(c, {"response"})
            k == Len(rs)
        IN ( /\ k >= 1 /\ k = cfg.max_retry_attempts
             /\ \A i \in 1..k : rs[i].arg \in {"Timeout", "Exception", "Status500"} )
           => /\ loc[c].api = Result(Empty, rs[k].arg)
              /\ Proj(c, {"send"})[1] = Ev("send", rs[k].arg)
              /\ Len(Proj(c, {"post"})) = k

\* Three attempts failed, each in its own way, and the last was an exception.
C18_Witness ==
    \E c \in Cmds :
        /\ cfg.max_retry_attempts = 3
        /\ Proj(c, {"response"}) = << Ev("response", "Timeout"), Ev("response", "Status500"),
                                      Ev("response", "Exception") >>
        /\ loc[c].api = Result(Empty, "Exception")

\* A result holds a URL and no error, or no URL and an error.
OneOf(res) == (res.url # Empty /\ res.err = "") \/ (res.url = Empty /\ res.err # "")

\* C19: whatever the client has returned, and whatever the extraction has
\* returned, holds either a URL and no error or no URL and an error.
C19_ResultNeverPartial ==
    \A c \in Cmds :
        /\ loc[c].api # NoResult => OneOf(loc[c].api)
        /\ loc[c].extracted # NoResult =>
              /\ OneOf(loc[c].extracted)
              /\ loc[c].api # NoResult /\ OneOf(loc[c].api)

\* After a failed attempt, the client returned the error of the extraction
\* from a body whose message has no content.
C19_Witness ==
    \E c \in Cmds :
        /\ loc[c].body.shape = "no_content"
        /\ loc[c].extracted = Result(Empty, "MissingContent")
        /\ loc[c].api = Result(Empty, "MissingContent")
        /\ Len(Proj(c, {"response"})) = 2

\* C20: a URL the extraction has returned, and the URL a run downloads, is at
\* least 10 characters long, starts with http:// or https://, holds ".mp4" in
\* some case, and holds no character that a URL may not hold.
C20_ReturnedUrlIsValid ==
    \A c \in Cmds :
        \A u \in {loc[c].extracted.url, loc[c].video_url} :
            u # Empty =>
                /\ CharLen(u) >= 10
                /\ u[1] \in {"http://", "https://"}
                /\ \E i \in DOMAIN u : u[i] \in {".mp4", ".MP4"}
                /\ \A i \in DOMAIN u : u[i] # "<"

\* The only candidates held an angle bracket, or no scheme: nothing is returned.
C20_Witness ==
    \E c \in Cmds :
        /\ loc[c].body = Body("dict", UrlAngle, << >>, << Span("md", UrlName) >>)
        /\ loc[c].extracted = Result(Empty, "NoValidUrlFound")
        /\ ~Has(c, "download")

\* The handler refused command c because of its group.
AuthDenied(c) ==
    HasEv(c, "reply", "GroupNotAuthorized") \/ HasEv(c, "reply", "GroupBlocked")

\* C21: group authorization comes before rate limiting.  The handler's first
\* block refuses a command in whitelist mode exactly when its group is not in
\* the list and in blacklist mode exactly when it is (so never in mode off, and
\* never without a group), and a refused command leaves the rate windows and
\* the locks of every group as they were: no count is consumed.
C21_AuthorizationBeforeRate ==
    [][\A c \in Cmds :
         (pc[c] = "idle" /\ pc'[c] # "idle") =>
            LET g == cmd'[c].group
                listed == g \in cfg.group_list
            IN
            /\ HasEv(c, "reply", "GroupNotAuthorized")'
                  <=> (g # NoGroup /\ cfg.group_control_mode = "whitelist" /\ ~listed)
            /\ HasEv(c, "reply", "GroupBlocked")'
                  <=> (g # NoGroup /\ cfg.group_control_mode = "blacklist" /\ listed)
            /\ AuthDenied(c)' =>
                  /\ rate_limit_bucket' = rate_limit_bucket
                  /\ rate_limit_locks' = rate_limit_locks]_vars

\* A command was refused for its group after another was admitted and counted,
\* the rate limiter being enabled.
C21_Witness ==
    /\ cfg.rate_limit_enabled
    /\ \E c \in Cmds : AuthDenied(c)
    /\ \E d \in Cmds : pc[d] = "done" /\ ~AuthDenied(d)

\* C22 (as claimed): the extraction of a body that passed the checks on its
\* shape fails only if none of the four strategies (structured fields, HTML
\* video tag, bare URL, Markdown link) yields a candidate that survives
\* resolution and validation.
C22_FailsOnlyIfNoStrategy ==
    \A c \in Cmds :
        LET b == loc[c].body IN
        (b # NoBody /\ loc[c].extracted = Result(Empty, "NoValidUrlFound")) =>
            /\ ResolveUrl(TryStructuredExtraction(b)) = Empty
            /\ ResolveUrl(ExtractFromHtmlTag(b.content)) = Empty
            /\ ResolveUrl(ExtractDirectUrl(b.content)) = Empty
            /\ ResolveUrl(ExtractFromMarkdown(b.content)) = Empty

\* C23 (as claimed): a run whose download failed, at client.get, at open() or
\* at f.write(), sends the download failure to the actor, and once it has ended
\* the storage directory holds no file that it created.
C23_FailedDownloadLeavesNoFile ==
    \A c \in Cmds :
        (Ended(c) /\ \E out \in Downloads \ {"Ok"} : HasEv(c, "download_result", out)) =>
            /\ HasEv(c, "send", "DownloadFailed")
            /\ FileName(c) \notin files

\* C24 (as claimed): every entry the handler inserts into the dedup map is
\* eventually removed, also when the handler fails or is abandoned between the
\* insertion and asyncio.create_task, so that no actor stays blocked forever.
C24_EntryEventuallyRemoved ==
    \A a \in Actors : (processing_tasks[a] # 0) ~> (processing_tasks[a] = 0)

\* The reports on the delivery that the run of c has sent to the actor.
Reports(c) ==
    { r \in {"Success", "TimeoutWarning", "DeliveryFailed"} : HasEv(c, "send", r) }

\* C25 (as claimed): once the send of the video has returned within the bounded
\* wait, the run sends the actor no delivery-failure message and no timeout
\* warning, whatever becomes of the success message that follows: the success
\* message is the one report of the run.
C25_NoFailureAfterDelivery ==
    \A c \in Cmds :
        (Has(c, "video_sent") /\ loc[c].send = "returned") =>
            Reports(c) = {"Success"}

====================================================================
